---- MODULE Spec2Model ----
(***************************************************************************)
(* The WordPiece model of tokenizers/src/models/wordpiece/mod.rs: the      *)
(* builder, the derivation from a BPE model, tokenize, save and read_file. *)
(*                                                                         *)
(* A string is a sequence of characters and a character is a one-symbol    *)
(* string.  "_" stands for the sentinel U+2581 (three bytes in UTF-8) and  *)
(* "E" stands for a two-byte letter such as U+00E9; every other character  *)
(* is one byte.  "\n" is the line feed and " " the space.                  *)
(***************************************************************************)
EXTENDS Naturals, Sequences, FiniteSets, TLC

\* ------------------------------------------------------------------ bounds
MaxWordLen == 3
MaxVocabSize == 3

\* --------------------------------------------------------------- strings
Sentinel == "_"
Newline == "\n"
Space == " "

Utf8Len(c) == CASE c = Sentinel -> 3 [] c = "E" -> 2 [] OTHER -> 1

RECURSIVE StrLen(_)
StrLen(s) == IF s = <<>> THEN 0 ELSE Utf8Len(Head(s)) + StrLen(Tail(s))

CharsCount(s) == Len(s)

StartsWith(s, p) == Len(p) <= Len(s) /\ SubSeq(s, 1, Len(p)) = p

Skip(s, n) == SubSeq(s, n + 1, Len(s))

\* chars[start..stop], a half-open slice in zero-based coordinates
Slice(chars, start, stop) == SubSeq(chars, start + 1, stop)

SetMax(S) == CHOOSE x \in S : \A y \in S : y <= x

SeqsUpTo(A, n) == UNION {[1..k -> A] : k \in 0..n}

\* ------------------------------------------------------------ the inputs
Alphabet == {"a", "E", "#", Sentinel}
Words == SeqsUpTo(Alphabet, MaxWordLen)

UnkDefault == <<"[", "U", "N", "K", "]">>
UnkOther == <<"<", "u", "n", "k", ">">>
PrefixDefault == <<"#", "#">>
PrefixOther == <<"#">>
DefaultMaxInputChars == 100

KeyPool ==
    << <<"a">>, <<"a", "E">>, <<"#", "a">>, <<"#", "#", "E", "a">>,
       <<"#", "#", "a">>, <<>>, <<"#", Sentinel, "a">> >>

PoolIndex(k) == CHOOSE i \in 1..Len(KeyPool) : KeyPool[i] = k

\* A vocabulary as a file of the pool's keys would give it: ids are the
\* ranks 0..n-1, the unknown-token, when present, last.
VocabOf(S, hasUnk) ==
    LET keys == {KeyPool[i] : i \in S} \cup (IF hasUnk THEN {UnkDefault} ELSE {})
    IN  [k \in keys |->
            IF k = UnkDefault THEN Cardinality(S)
            ELSE Cardinality({j \in S : j < PoolIndex(k)})]

Vocabs ==
    {VocabOf(S, u) : S \in {T \in SUBSET (1..Len(KeyPool)) : Cardinality(T) <= MaxVocabSize},
                     u \in BOOLEAN}

EmptyVocab == [k \in {} |-> 0]

\* ------------------------------------------------------- the prefix trie
\* utils::trie::Trie is not part of the sources at hand; it is modelled from
\* section 4.1 of the specification as the set of its complete paths.
TrieDefault == {}

TriePush(trie, element) == trie \cup {element}

\* The end of the longest complete path that starts at cursor, or cursor
\* itself when no complete path starts there.
TrieLongestMatch(trie, chars, cursor) ==
    LET ends == {stop \in (cursor + 1)..Len(chars) : Slice(chars, cursor, stop) \in trie}
    IN  IF ends = {} THEN cursor ELSE SetMax(ends)

RECURSIVE TrieScan(_, _, _)
TrieScan(trie, chars, cursor) ==
    IF cursor >= Len(chars) THEN <<>>
    ELSE LET stop == TrieLongestMatch(trie, chars, cursor)
         IN  IF stop = cursor THEN <<>>
             ELSE << <<cursor, stop>> >> \o TrieScan(trie, chars, stop)

TrieMatches(trie, chars) == TrieScan(trie, chars, 0)

\* ------------------------------------------------------ save and read_file
Whitespace == {Space, Newline, "\r", "\t"}

RECURSIVE Concat(_)
Concat(ss) == IF ss = <<>> THEN <<>> ELSE Head(ss) \o Concat(Tail(ss))

\* A faulty variant: the entries are written in the map's order, unsorted.
SaveOrdersUnsorted(vocab) ==
    {order \in [1..Cardinality(DOMAIN vocab) -> DOMAIN vocab] :
        \A i, j \in DOMAIN order : i # j => order[i] # order[j]}

\* The orders sort_unstable_by_key may leave the entries in: ascending by
\* id, entries of one id in any order.
SaveOrders(vocab) ==
    {order \in [1..Cardinality(DOMAIN vocab) -> DOMAIN vocab] :
        /\ \A i, j \in DOMAIN order : i # j => order[i] # order[j]
        /\ \A i, j \in DOMAIN order : i < j => vocab[order[i]] <= vocab[order[j]]}

\* format!("{}\n", token) for every entry, in order
FileOf(order) == Concat([i \in DOMAIN order |-> order[i] \o <<Newline>>])

\* BufRead::lines: the text between line feeds, without them; what follows
\* the last line feed is a line only when it is not empty.
RECURSIVE Lines(_, _)
Lines(text, line) ==
    IF text = <<>> THEN (IF line = <<>> THEN <<>> ELSE <<line>>)
    ELSE IF Head(text) = Newline
         THEN <<IF line # <<>> /\ line[Len(line)] = "\r"
                THEN SubSeq(line, 1, Len(line) - 1) ELSE line>> \o Lines(Tail(text), <<>>)
         ELSE Lines(Tail(text), Append(line, Head(text)))

RECURSIVE TrimEnd(_)
TrimEnd(line) ==
    IF line # <<>> /\ line[Len(line)] \in Whitespace
    THEN TrimEnd(SubSeq(line, 1, Len(line) - 1))
    ELSE line

\* vocab.insert(line.trim_end(), index) for every line: a later line of the
\* same text replaces the earlier one.
ReadFileVocab(text) ==
    LET lines == Lines(text, <<>>)
    IN  [k \in {TrimEnd(lines[i]) : i \in DOMAIN lines} |->
            SetMax({i \in DOMAIN lines : TrimEnd(lines[i]) = k}) - 1]

PersistPool ==
    << <<"a">>, <<"a", Space>>, <<"E">>, <<>>, <<"a", Newline, "E">>, <<Space, "a">> >>

\* Every map from at most MaxVocabSize keys of the pool to ids 0..MaxVocabSize.
PersistVocabs ==
    UNION {[keys -> 0..MaxVocabSize] :
              keys \in {K \in SUBSET {PersistPool[i] : i \in DOMAIN PersistPool} :
                            Cardinality(K) <= MaxVocabSize}}

\* ------------------------------------------------------------ the builder
\* An Option is a sequence of no or one value.
None == <<>>
Some(x) == <<x>>

VocabPath == <<"v", "o", "c", "a", "b", ".", "t", "x", "t">>

DefaultConfig ==
    [files |-> None,
     vocab |-> EmptyVocab,
     unk_token |-> UnkDefault,
     continuing_subword_prefix |-> PrefixDefault,
     max_input_chars_per_word |-> DefaultMaxInputChars]

DefaultWordPiece ==
    [vocab |-> EmptyVocab,
     vocab_r |-> {},
     trie |-> TrieDefault,
     unk_token |-> UnkDefault,
     continuing_subword_prefix |-> PrefixDefault,
     max_input_chars_per_word |-> DefaultMaxInputChars]

\* The reverse map as the (id, key) pairs collected into it; of two keys
\* with one id the HashMap keeps either.
VocabR(vocab) == {<<vocab[k], k>> : k \in DOMAIN vocab}

\* The symbols build pushes for one key.
TrieChars(key, prefix) ==
    IF StartsWith(key, prefix) THEN Skip(key, CharsCount(prefix))
    ELSE <<Sentinel>> \o key

RECURSIVE PushAll(_, _)
PushAll(trie, elements) ==
    IF elements = {} THEN trie
    ELSE LET element == CHOOSE e \in elements : TRUE
         IN  PushAll(TriePush(trie, element), elements \ {element})

\* trie.push(&chars) for every key of the vocabulary, from Trie::default()
BuildTrie(vocab, prefix) ==
    PushAll(TrieDefault, {TrieChars(key, prefix) : key \in DOMAIN vocab})

\* text is what the file named by cfg.files holds.
BuildModel(cfg, text) ==
    LET vocab == IF cfg.files # None THEN ReadFileVocab(text) ELSE cfg.vocab
    IN
    [vocab |-> vocab,
     vocab_r |-> VocabR(vocab),
     trie |-> BuildTrie(vocab, cfg.continuing_subword_prefix),
     unk_token |-> cfg.unk_token,
     continuing_subword_prefix |-> cfg.continuing_subword_prefix,
     max_input_chars_per_word |-> cfg.max_input_chars_per_word]

\* The BPE model as from_bpe reads it: get_vocab, get_unk_token and
\* get_continuing_subword_prefix.
DefaultBpe == [vocab |-> EmptyVocab, unk_token |-> None, continuing_subword_prefix |-> None]

Bpes ==
    [vocab : Vocabs,
     unk_token : {None, Some(UnkOther)},
     continuing_subword_prefix : {None, Some(PrefixOther)}]

FromBpeModel(b) ==
    LET wp0 == BuildModel([DefaultConfig EXCEPT !.vocab = b.vocab], <<>>)
        wp1 == IF b.unk_token # None
               THEN [wp0 EXCEPT !.unk_token = b.unk_token[1]]
               ELSE wp0
    IN  IF b.continuing_subword_prefix # None
        THEN [wp1 EXCEPT !.continuing_subword_prefix = b.continuing_subword_prefix[1]]
        ELSE wp1

\* --------------------------------------------------------------- tokenize
Token(value, id, offsets) == [value |-> value, id |-> id, offsets |-> offsets]

Ok(tokens) == [err |-> "", tokens |-> tokens]
MissingUnkToken == [err |-> "MissingUnkToken", tokens |-> <<>>]

\* A faulty variant: the id falls back to 0 where the unknown-token has none.
UnkResultDefaultId(m, end) ==
    Ok(<<Token(m.unk_token,
               IF m.unk_token \in DOMAIN m.vocab THEN m.vocab[m.unk_token] ELSE 0,
               <<0, end>>)>>)

\* vec![Token { value: unk_token, id: vocab.get(unk_token).ok_or(..)?, offsets: (0, end) }]
UnkResult(m, end) ==
    IF m.unk_token \in DOMAIN m.vocab
    THEN Ok(<<Token(m.unk_token, m.vocab[m.unk_token], <<0, end>>)>>)
    ELSE MissingUnkToken

SentinelChars(seq) == <<Sentinel>> \o seq

LengthGuard(m, chars) == Len(chars) > m.max_input_chars_per_word + 1

\* A faulty variant: the guard's token ends at the word's length in bytes.
GuardUnkByteOffsets(m, seq, chars) == UnkResult(m, StrLen(seq))

GuardUnk(m, seq, chars) == UnkResult(m, Len(chars) - 1)

\* A faulty variant: the sentinel's index is not removed from the end offset.
FastPathSentinelOffsets(m, seq, chars) ==
    Ok(<<Token(seq, m.vocab[seq], <<0, Len(chars)>>)>>)

FastPath(m, seq, chars) == Ok(<<Token(seq, m.vocab[seq], <<0, Len(chars) - 1>>)>>)

GeneralUnk(m, seq) == UnkResult(m, StrLen(seq))

PieceStart(start) == IF start = 0 THEN start + 1 ELSE start

\* A faulty variant: the continuing-subword-prefix is never put back.
PieceTextNoPrefix(m, chars, start, stop) == Slice(chars, start, stop)

PieceText(m, chars, start, stop) ==
    IF start > 1 THEN m.continuing_subword_prefix \o Slice(chars, start, stop)
    ELSE Slice(chars, start, stop)

PieceOffsets(start, stop) == <<start - 1, stop - 1>>

\* A faulty variant: the pieces matched so far are returned whatever is left over.
EndOfScanKeepsPieces(m, seq, chars, start_offset, sub_tokens) == Ok(sub_tokens)

EndOfScan(m, seq, chars, start_offset, sub_tokens) ==
    IF start_offset # Len(chars) THEN GeneralUnk(m, seq) ELSE Ok(sub_tokens)

RECURSIVE ForMatches(_, _, _, _, _, _)
ForMatches(m, seq, chars, ms, start_offset, sub_tokens) ==
    IF ms = <<>> THEN EndOfScan(m, seq, chars, start_offset, sub_tokens)
    ELSE IF start_offset < Head(ms)[1] THEN GeneralUnk(m, seq)
    ELSE LET start == PieceStart(Head(ms)[1])
             stop == Head(ms)[2]
             substr == PieceText(m, chars, start, stop)
         IN  IF substr \in DOMAIN m.vocab
             THEN ForMatches(m, seq, chars, Tail(ms), stop,
                             Append(sub_tokens,
                                    Token(substr, m.vocab[substr], PieceOffsets(start, stop))))
             ELSE GeneralUnk(m, seq)

TokenizeWord(m, seq) ==
    LET chars == SentinelChars(seq)
    IN  IF LengthGuard(m, chars) THEN GuardUnk(m, seq, chars)
        ELSE IF seq \in DOMAIN m.vocab THEN FastPath(m, seq, chars)
        ELSE ForMatches(m, seq, chars, TrieMatches(m.trie, chars), 0, <<>>)

\* ------------------------------------------------------------------ state
VARIABLES
    pc,         \* "builder", "model", "returned", "saved", "loaded"
    config,     \* the builder's Config
    bpe,        \* the BPE model at hand
    wp,         \* the WordPiece model
    sequence,   \* the argument of the last tokenize call
    result,     \* what that call returned
    file,       \* the vocabulary file, a sequence of characters
    loaded      \* the vocabulary read_file returned

vars == <<pc, config, bpe, wp, sequence, result, file, loaded>>

Init ==
    /\ pc = "builder"
    /\ config = DefaultConfig
    /\ bpe = DefaultBpe
    /\ wp = DefaultWordPiece
    /\ sequence = <<>>
    /\ result = Ok(<<>>)
    /\ file = <<>>
    /\ loaded = EmptyVocab

BuilderVocab(vocab) ==
    /\ pc = "builder"
    /\ bpe = DefaultBpe
    /\ config' = [config EXCEPT !.vocab = vocab]
    /\ UNCHANGED <<pc, bpe, wp, sequence, result, file, loaded>>

BuilderUnkToken(unk_token) ==
    /\ pc = "builder"
    /\ bpe = DefaultBpe
    /\ config' = [config EXCEPT !.unk_token = unk_token]
    /\ UNCHANGED <<pc, bpe, wp, sequence, result, file, loaded>>

BuilderContinuingSubwordPrefix(prefix) ==
    /\ pc = "builder"
    /\ bpe = DefaultBpe
    /\ config' = [config EXCEPT !.continuing_subword_prefix = prefix]
    /\ UNCHANGED <<pc, bpe, wp, sequence, result, file, loaded>>

BuilderMaxInputCharsPerWord(max) ==
    /\ pc = "builder"
    /\ bpe = DefaultBpe
    /\ config' = [config EXCEPT !.max_input_chars_per_word = max]
    /\ UNCHANGED <<pc, bpe, wp, sequence, result, file, loaded>>

Build ==
    /\ pc = "builder"
    /\ bpe = DefaultBpe
    /\ wp' = BuildModel(config, file)
    /\ pc' = "model"
    /\ UNCHANGED <<config, bpe, sequence, result, file, loaded>>

\* The BPE model comes from elsewhere, with any vocabulary, unknown-token
\* and continuing-subword-prefix.
BpeModel(b) ==
    /\ pc = "builder"
    /\ config = DefaultConfig
    /\ bpe = DefaultBpe
    /\ bpe' = b
    /\ UNCHANGED <<pc, config, wp, sequence, result, file, loaded>>

FromBpe ==
    /\ pc = "builder"
    /\ config = DefaultConfig
    /\ wp' = FromBpeModel(bpe)
    /\ pc' = "model"
    /\ UNCHANGED <<config, bpe, sequence, result, file, loaded>>

Tokenize(word) ==
    /\ pc = "model"
    /\ sequence' = word
    /\ result' = TokenizeWord(wp, word)
    /\ pc' = "returned"
    /\ UNCHANGED <<config, bpe, wp, file, loaded>>

Next ==
    \/ \E vocab \in Vocabs : BuilderVocab(vocab)
    \/ \E unk_token \in {UnkDefault, UnkOther} : BuilderUnkToken(unk_token)
    \/ \E prefix \in {PrefixDefault, PrefixOther} : BuilderContinuingSubwordPrefix(prefix)
    \/ \E max \in {1, DefaultMaxInputChars} : BuilderMaxInputCharsPerWord(max)
    \/ Build
    \/ \E b \in Bpes : BpeModel(b)
    \/ FromBpe
    \/ \E word \in Words : Tokenize(word)

Spec == Init /\ [][Next]_vars

\* Persistence: a model built from a vocabulary is saved and the file read.
InitPersist ==
    /\ pc = "model"
    /\ \E vocab \in PersistVocabs :
           /\ config = [DefaultConfig EXCEPT !.vocab = vocab]
           /\ wp = BuildModel([DefaultConfig EXCEPT !.vocab = vocab], <<>>)
    /\ bpe = DefaultBpe
    /\ sequence = <<>>
    /\ result = Ok(<<>>)
    /\ file = <<>>
    /\ loaded = EmptyVocab

Save ==
    /\ pc = "model"
    /\ \E order \in SaveOrders(wp.vocab) : file' = FileOf(order)
    /\ pc' = "saved"
    /\ UNCHANGED <<config, bpe, wp, sequence, result, loaded>>

ReadFile ==
    /\ pc = "saved"
    /\ loaded' = ReadFileVocab(file)
    /\ pc' = "loaded"
    /\ UNCHANGED <<config, bpe, wp, sequence, result, file>>

\* WordPiece::from_file(path).build() on the file save wrote
BuildFromFile ==
    /\ pc = "saved"
    /\ config' = [DefaultConfig EXCEPT !.files = Some(VocabPath)]
    /\ wp' = BuildModel(config', file)
    /\ pc' = "model"
    /\ UNCHANGED <<bpe, sequence, result, file, loaded>>

NextPersist == Save \/ ReadFile \/ BuildFromFile

SpecPersist == InitPersist /\ [][NextPersist]_vars

\* ------------------------------------------------- reading a returned call
Returned == pc = "returned"

WordChars == SentinelChars(sequence)

GuardHit == CharsCount(sequence) + 1 > wp.max_input_chars_per_word + 1

HasUnk == wp.unk_token \in DOMAIN wp.vocab

IsError == result.err = "MissingUnkToken" /\ result.tokens = <<>>

IsFallback ==
    /\ result.err = ""
    /\ Len(result.tokens) = 1
    /\ result.tokens[1].value = wp.unk_token
    /\ HasUnk
    /\ result.tokens[1].id = wp.vocab[wp.unk_token]

\* The offsets start at 0, follow one another and end at the word's length.
Tiles ==
    /\ Len(result.tokens) >= 1
    /\ result.tokens[1].offsets[1] = 0
    /\ \A i \in 2..Len(result.tokens) :
           result.tokens[i].offsets[1] = result.tokens[i - 1].offsets[2]
    /\ result.tokens[Len(result.tokens)].offsets[2] = CharsCount(sequence)

IsSegmentation ==
    /\ result.err = ""
    /\ \A i \in 1..Len(result.tokens) :
           /\ result.tokens[i].value \in DOMAIN wp.vocab
           /\ result.tokens[i].value # wp.unk_token
           /\ result.tokens[i].id = wp.vocab[result.tokens[i].value]
    /\ Tiles

\* C1: every returned call is exactly one of: the error MissingUnkToken, one
\* fallback token (the unknown-token with its vocabulary id), or a list of
\* vocabulary pieces, none of them the unknown-token, whose offsets cover
\* the whole word.
C1_AllOrNothing ==
    Returned =>
        \/ IsError /\ ~IsFallback /\ ~IsSegmentation
        \/ ~IsError /\ IsFallback /\ ~IsSegmentation
        \/ ~IsError /\ ~IsFallback /\ IsSegmentation

\* A fallback that discarded at least one provisionally matched piece.
C1_Witness ==
    /\ Returned /\ IsFallback /\ ~GuardHit
    /\ TrieMatches(wp.trie, WordChars) # <<>>
    /\ PieceText(wp, WordChars, 1, TrieMatches(wp.trie, WordChars)[1][2]) \in DOMAIN wp.vocab

\* The word's characters in a token's offset interval, behind the
\* continuing-subword-prefix for every token but the first.
ExpectedValue(i) ==
    LET off == result.tokens[i].offsets
        text == Slice(sequence, off[1], off[2])
    IN  IF i > 1 THEN wp.continuing_subword_prefix \o text ELSE text

\* A token's value without the continuing-subword-prefix (first token: as is).
Stripped(i) ==
    LET v == result.tokens[i].value
    IN  IF i > 1 /\ StartsWith(v, wp.continuing_subword_prefix)
        THEN Skip(v, Len(wp.continuing_subword_prefix))
        ELSE v

\* C2: a call that returns neither the fallback token nor an error returns
\* tokens that tile the word: offsets from 0 to the number of characters
\* without gap, each value the word's text in its interval (prefixed for all
\* but the first), and the stripped values concatenate to the word.
C2_TokensTileWord ==
    (Returned /\ ~IsError /\ ~IsFallback) =>
        /\ Tiles
        /\ \A i \in 1..Len(result.tokens) : result.tokens[i].value = ExpectedValue(i)
        /\ Concat([i \in 1..Len(result.tokens) |-> Stripped(i)]) = sequence

C2_Witness ==
    /\ Returned /\ ~IsError /\ ~IsFallback
    /\ Len(result.tokens) >= 2
    /\ Tiles
    /\ \A i \in 1..Len(result.tokens) : result.tokens[i].value = ExpectedValue(i)

\* Greedy longest-match-first against the vocabulary itself: from cursor c
\* of the word, the longest piece s such that s (at the start of the word)
\* or continuing-subword-prefix + s (later) is a vocabulary key.
VocabPieceKey(c, n) ==
    IF c = 0 THEN Slice(sequence, c, n)
    ELSE wp.continuing_subword_prefix \o Slice(sequence, c, n)

RECURSIVE VocabGreedy(_, _)
VocabGreedy(c, pieces) ==
    IF c = Len(sequence) THEN [ok |-> TRUE, pieces |-> pieces]
    ELSE LET ends == {n \in (c + 1)..Len(sequence) : VocabPieceKey(c, n) \in DOMAIN wp.vocab}
         IN  IF ends = {} THEN [ok |-> FALSE, pieces |-> <<>>]
             ELSE VocabGreedy(SetMax(ends), Append(pieces, VocabPieceKey(c, SetMax(ends))))

ResultValues == [i \in 1..Len(result.tokens) |-> result.tokens[i].value]

\* C3: for a non-empty word within the length limit that is not a vocabulary
\* key, the pieces returned are those of greedy longest-match-first against
\* the vocabulary, and the call falls back exactly when that greedy walk
\* finds no vocabulary key at some cursor position it reaches.
C3_GreedyAgainstVocabulary ==
    (Returned /\ ~GuardHit /\ sequence # <<>> /\ sequence \notin DOMAIN wp.vocab) =>
        /\ (IsFallback \/ IsError) <=> ~VocabGreedy(0, <<>>).ok
        /\ VocabGreedy(0, <<>>).ok => ResultValues = VocabGreedy(0, <<>>).pieces

\* Some split of the word into a word-initial vocabulary key followed by
\* zero or more pieces p with continuing-subword-prefix + p a vocabulary key.
RECURSIVE CanSegmentFrom(_)
CanSegmentFrom(c) ==
    \/ c = Len(sequence)
    \/ \E n \in (c + 1)..Len(sequence) :
           VocabPieceKey(c, n) \in DOMAIN wp.vocab /\ CanSegmentFrom(n)

ValidSegmentationExists ==
    IF sequence = <<>> THEN <<>> \in DOMAIN wp.vocab ELSE CanSegmentFrom(0)

\* C4 as stated: the unknown-token is substituted, within the length limit,
\* only when no valid full segmentation of the word exists.
C4_FallbackOnlyWithoutSegmentation ==
    (Returned /\ ~GuardHit /\ IsFallback) => ~ValidSegmentationExists

\* The text looked up for the trie interval [p, q) of the sentinel-prefixed
\* word: the interval without the sentinel, prefixed when it starts after
\* the word's first character.
ScanPiece(p, q) ==
    IF p = 0 THEN Slice(WordChars, 1, q)
    ELSE IF p = 1 THEN Slice(WordChars, p, q)
    ELSE wp.continuing_subword_prefix \o Slice(WordChars, p, q)

\* cuts is the set of interval ends of a complete greedy scan: every
\* interval is the longest trie entry at its start and its text is a key.
GreedyCuts(cuts) ==
    /\ 0 \in cuts /\ Len(WordChars) \in cuts
    /\ \A p \in cuts \ {Len(WordChars)} :
           \E q \in cuts :
               /\ p < q
               /\ \A r \in cuts : ~(p < r /\ r < q)
               /\ Slice(WordChars, p, q) \in wp.trie
               /\ \A r \in (q + 1)..Len(WordChars) : Slice(WordChars, p, r) \notin wp.trie
               /\ ScanPiece(p, q) \in DOMAIN wp.vocab

GreedyScanComplete ==
    \E inner \in SUBSET (1..(Len(WordChars) - 1)) :
        GreedyCuts(inner \cup {0, Len(WordChars)})

\* C4 (amended): the unknown-token is substituted, within the length limit,
\* only when the word is not a vocabulary key and the greedy
\* longest-match-first scan of the trie does not end in a complete
\* segmentation whose pieces are all vocabulary keys.
C4_FallbackOnlyWithoutGreedySegmentation ==
    (Returned /\ ~GuardHit /\ IsFallback) =>
        sequence \notin DOMAIN wp.vocab /\ ~GreedyScanComplete

\* A fallback for a word that has a valid, non-greedy segmentation, in a
\* model whose trie agrees with its prefix.
C4_Witness ==
    /\ Returned /\ ~GuardHit /\ IsFallback
    /\ wp.trie = BuildTrie(wp.vocab, wp.continuing_subword_prefix)
    /\ wp.continuing_subword_prefix = PrefixDefault
    /\ TrieMatches(wp.trie, WordChars) # <<>>
    /\ ValidSegmentationExists
    /\ ~GreedyScanComplete

\* The intervals the scan yields for the word and the reasons tokenize has
\* to give up on them.
ScanIntervals == TrieMatches(wp.trie, WordChars)

GapBeforeMatch ==
    \E i \in 1..Len(ScanIntervals) :
        (IF i = 1 THEN 0 ELSE ScanIntervals[i - 1][2]) < ScanIntervals[i][1]

PieceAbsent ==
    \E i \in 1..Len(ScanIntervals) :
        ScanPiece(ScanIntervals[i][1], ScanIntervals[i][2]) \notin DOMAIN wp.vocab

UnmatchedRemainder ==
    (IF ScanIntervals = <<>> THEN 0 ELSE ScanIntervals[Len(ScanIntervals)][2])
        # Len(WordChars)

NeedsFallback ==
    \/ GuardHit
    \/ /\ sequence \notin DOMAIN wp.vocab
       /\ (GapBeforeMatch \/ PieceAbsent \/ UnmatchedRemainder)

\* C5: tokenize fails with MissingUnkToken exactly when the call needs the
\* fallback token and the unknown-token is not a vocabulary key.
C5_MissingUnkExactlyWhenNeeded ==
    Returned => (IsError <=> (NeedsFallback /\ ~HasUnk))

\* A model without the unknown-token that fails on one word ...
C5_Witness ==
    Returned /\ ~HasUnk /\ IsError /\ ~GuardHit /\ PieceAbsent

\* ... and segments another word completely.
C5_WitnessNormal ==
    Returned /\ ~HasUnk /\ ~IsError /\ Len(result.tokens) >= 2

\* C6: a word longer than max_input_chars_per_word yields one fallback token
\* with offsets (0, number of characters), also when the word is a
\* vocabulary key; without the unknown-token in the vocabulary the call
\* fails with MissingUnkToken.
C6_LengthGuard ==
    (Returned /\ GuardHit) =>
        IF HasUnk
        THEN result = Ok(<<Token(wp.unk_token, wp.vocab[wp.unk_token],
                                  <<0, CharsCount(sequence)>>)>>)
        ELSE IsError

\* The guard hit on a word that is a vocabulary key and has a two-byte letter.
C6_Witness ==
    /\ Returned /\ GuardHit /\ HasUnk /\ IsFallback
    /\ sequence \in DOMAIN wp.vocab
    /\ StrLen(sequence) # CharsCount(sequence)

\* C7: a word within the length limit that is a vocabulary key yields one
\* token: the word, its id, offsets (0, number of characters).
C7_FastPath ==
    (Returned /\ ~GuardHit /\ sequence \in DOMAIN wp.vocab) =>
        result = Ok(<<Token(sequence, wp.vocab[sequence], <<0, CharsCount(sequence)>>)>>)

\* The fast path on a key that begins with the continuing-subword-prefix.
C7_Witness ==
    /\ Returned /\ ~GuardHit /\ sequence \in DOMAIN wp.vocab
    /\ StartsWith(sequence, wp.continuing_subword_prefix)
    /\ Len(sequence) > Len(wp.continuing_subword_prefix)
    /\ result.tokens[1].value = sequence

\* C8: a fallback token of the general path has offsets (0, number of
\* characters of the word).
C8_GeneralFallbackOffsets ==
    (Returned /\ ~GuardHit /\ IsFallback) =>
        result.tokens[1].offsets = <<0, CharsCount(sequence)>>

\* Undoing the transformation of build with the model's own prefix.
PathKey(m, path) ==
    IF path # <<>> /\ Head(path) = Sentinel THEN Tail(path)
    ELSE m.continuing_subword_prefix \o path

\* C10: in a built or derived model every complete trie path is the path of
\* exactly one vocabulary key, the key that undoing the transformation with
\* the model's continuing_subword_prefix gives.
C10_TriePathsAreKeys ==
    (pc # "builder") =>
        \A path \in wp.trie :
            /\ PathKey(wp, path) \in DOMAIN wp.vocab
            /\ Cardinality({k \in DOMAIN wp.vocab :
                               TrieChars(k, wp.continuing_subword_prefix) = path}) = 1

\* The ids are unique and are 0..n-1.
DenseIds(vocab) ==
    /\ \A j, k \in DOMAIN vocab : j # k => vocab[j] # vocab[k]
    /\ {vocab[k] : k \in DOMAIN vocab} = 0..(Cardinality(DOMAIN vocab) - 1)

\* C9 as stated: read_file of the file save wrote gives back every
\* vocabulary whose ids are unique and dense from 0.
C9_RoundTrip ==
    (pc = "loaded" /\ DenseIds(wp.vocab)) => loaded = wp.vocab

\* The key survives a line-oriented file: no line feed in it and no
\* whitespace at its end.
FileSafeKey(k) ==
    /\ \A i \in DOMAIN k : k[i] # Newline
    /\ k = <<>> \/ k[Len(k)] \notin Whitespace

\* C9 (amended): the round trip gives back every vocabulary whose ids are
\* unique and dense from 0 and whose keys hold no line feed and do not end
\* in whitespace.
C9_RoundTripFileSafeKeys ==
    (pc = "loaded" /\ DenseIds(wp.vocab) /\ \A k \in DOMAIN wp.vocab : FileSafeKey(k))
        => loaded = wp.vocab

\* A round trip of three keys, the empty one among them, with ids that are
\* not in the order of the keys.
C9_Witness ==
    /\ pc = "loaded" /\ DenseIds(wp.vocab)
    /\ \A k \in DOMAIN wp.vocab : FileSafeKey(k)
    /\ Cardinality(DOMAIN wp.vocab) = 3
    /\ <<>> \in DOMAIN wp.vocab /\ wp.vocab[<<>>] = 1
    /\ <<"a">> \in DOMAIN wp.vocab /\ wp.vocab[<<"a">>] = 2
    /\ loaded = wp.vocab

====
